---- MODULE Spec2Model ----
(***************************************************************************)
(* Subscription dashboard: the payment flow of PaymentModal, the Dashboard *)
(* that mounts it, and the Dashboard's spend analytics.                    *)
(*                                                                         *)
(* Text values are sequences of one-character strings, so that the         *)
(* formatting code (regular expressions, substring, trim) is modelled by   *)
(* what it does to the characters.                                         *)
(***************************************************************************)
EXTENDS Integers, Sequences, FiniteSets, TLC

VARIABLES
    subscriptions,          \* Dashboard prop: the owner's snapshot (a sequence of records)
    view,                   \* what the last Dashboard render computed (lines 181-217, 422-437)
    showPaymentModal,       \* Dashboard state
    selectedSubscription,   \* Dashboard state: <<sub>> for the subscription being paid, or NoSub
    flowId,                 \* number of PaymentModal instances mounted so far; the newest is flowId
    currentStep,            \* PaymentModal state, one cell per instance: [1..flowId -> PaymentStep]
    paymentInfo,            \* PaymentModal state of the mounted instance
    errors,                 \* PaymentModal state of the mounted instance
    timers,                 \* instances whose setTimeout callback is still pending
    registry,               \* Subscriptions state: searchTerm, filterBy, sortBy, showAddModal,
                            \* the mounted AddSubscriptionModal's formData, the alert it raised
    intents                 \* calls of onAddSubscription / onDeleteSubscription in flight to the owner

vars == <<subscriptions, view, showPaymentModal, selectedSubscription, flowId,
          currentStep, paymentInfo, errors, timers, registry, intents>>

dashVars == <<subscriptions, view>>
modalVars == <<showPaymentModal, selectedSubscription, flowId, currentStep,
               paymentInfo, errors, timers>>
registryVars == <<registry, intents>>

-----------------------------------------------------------------------------
(* Bounds of the model *)

MaxFlows == 2      \* PaymentModal instances mounted in one run
MaxSubs == 2       \* subscriptions in a snapshot

-----------------------------------------------------------------------------
(* Text helpers *)

Rep(c, n) == [i \in 1..n |-> c]

DigitChars == {"0", "1", "2", "3", "4", "5", "6", "7", "8", "9"}
WhitespaceChars == {" "}

RECURSIVE FilterChars(_, _)
FilterChars(s, keep) ==
    IF s = <<>> THEN <<>>
    ELSE (IF Head(s) \in keep THEN <<Head(s)>> ELSE <<>>) \o FilterChars(Tail(s), keep)

\* value.replace(/\D/g, "")
StripNonDigits(s) == FilterChars(s, DigitChars)

\* !value.trim(): the value is empty once leading and trailing whitespace is removed
TrimIsEmpty(s) == \A i \in 1..Len(s) : s[i] \in WhitespaceChars

Min(a, b) == IF a <= b THEN a ELSE b

-----------------------------------------------------------------------------
(* Dates.  An instant (a JavaScript Date) is a whole number of hours since *)
(* 1970-01-01T00:00Z.  The local time zone is UTC, so the local getters    *)
(* and setters used by the Dashboard act on the UTC calendar.              *)

HoursPerDay == 24
MonthsPerYear == 12

\* days since 1970-01-01 of the proleptic Gregorian date y-m-d (m in 1..12)
DaysFromCivil(y, m, d) ==
    LET yy  == IF m <= 2 THEN y - 1 ELSE y
        era == yy \div 400
        yoe == yy - era * 400
        mp  == IF m > 2 THEN m - 3 ELSE m + 9
        doy == (153 * mp + 2) \div 5 + d - 1
        doe == yoe * 365 + yoe \div 4 - yoe \div 100 + doy
    IN  era * 146097 + doe - 719468

CivilFromDays(z) ==
    LET zz  == z + 719468
        era == zz \div 146097
        doe == zz - era * 146097
        yoe == (doe - doe \div 1460 + doe \div 36524 - doe \div 146096) \div 365
        doy == doe - (365 * yoe + yoe \div 4 - yoe \div 100)
        mp  == (5 * doy + 2) \div 153
        d   == doy - (153 * mp + 2) \div 5 + 1
        m   == IF mp < 10 THEN mp + 3 ELSE mp - 9
        y   == yoe + era * 400 + (IF m <= 2 THEN 1 ELSE 0)
    IN  [y |-> y, m |-> m, d |-> d]

DayOf(t) == t \div HoursPerDay
HourOf(t) == t % HoursPerDay

GetFullYear(t) == CivilFromDays(DayOf(t)).y
GetMonth(t) == CivilFromDays(DayOf(t)).m - 1       \* 0-based, as in JavaScript
GetDate(t) == CivilFromDays(DayOf(t)).d

\* new Date(year, monthIndex, day) plus a time of day: a month index outside
\* 0..11 carries into the year and a day beyond the month's end carries into
\* the following month
MakeTime(year, monthIndex, day, hour) ==
    LET ym == year * MonthsPerYear + monthIndex
        y  == ym \div MonthsPerYear
        m  == ym % MonthsPerYear
    IN  (DaysFromCivil(y, m + 1, 1) + (day - 1)) * HoursPerDay + hour

\* date.setMonth(monthIndex)
SetMonth(t, monthIndex) == MakeTime(GetFullYear(t), monthIndex, GetDate(t), HourOf(t))

\* date.setFullYear(year)
SetFullYear(t, year) == MakeTime(year, GetMonth(t), GetDate(t), HourOf(t))

\* new Date(sub.renewalDate): the date input's "YYYY-MM-DD" text, held as
\* <<year, month, day>>, parses to midnight UTC of that day
NewDate(renewalDate) ==
    DaysFromCivil(renewalDate[1], renewalDate[2], renewalDate[3]) * HoursPerDay

MonthShortNames ==
    <<"Jan", "Feb", "Mar", "Apr", "May", "Jun", "Jul", "Aug", "Sep", "Oct", "Nov", "Dec">>

\* toLocaleDateString("en-US", {month: "short", day: "numeric"}): the year and
\* the time of day are dropped
MonthDayLabel(t) == <<MonthShortNames[GetMonth(t) + 1], GetDate(t)>>

\* Math.ceil(a / b) for b > 0 (-0 compares equal to 0)
CeilDiv(a, b) == -((-a) \div b)

-----------------------------------------------------------------------------
(* Sequences *)

\* new Date(sub.renewalDate).getTime()
RenewalTime(sub) == NewDate(sub.renewalDate)

RECURSIVE InsertByRenewal(_, _)
\* x goes after every element that does not compare greater: the sort is stable
InsertByRenewal(sorted, x) ==
    IF sorted = <<>> THEN <<x>>
    ELSE IF RenewalTime(Head(sorted)) - RenewalTime(x) <= 0
         THEN <<Head(sorted)>> \o InsertByRenewal(Tail(sorted), x)
         ELSE <<x>> \o sorted

RECURSIVE SortByRenewal(_)
\* array.sort((a, b) => new Date(a.renewalDate).getTime() - new Date(b.renewalDate).getTime())
SortByRenewal(s) ==
    IF s = <<>> THEN <<>>
    ELSE InsertByRenewal(SortByRenewal(SubSeq(s, 1, Len(s) - 1)), s[Len(s)])

RECURSIVE ReduceSum(_, _)
\* amounts.reduce((total, x) => total + x, initial), left to right
ReduceSum(amounts, initial) ==
    IF amounts = <<>> THEN initial
    ELSE ReduceSum(Tail(amounts), initial + Head(amounts))

-----------------------------------------------------------------------------
(* Dashboard: spend analytics.                                             *)
(* sub.cost is held in cents (the form steps the cost by 0.01).  Every     *)
(* amount derived from it is held in twelfths of a cent, the unit in which *)
(* cost / 12 is exact; binary floating-point error is not modelled.        *)

Categories == {"Entertainment", "Music", "Productivity", "Design", "Shopping"}
\* a label is held as the tuple of its parts: <<"Mar", 15>>, and <<"N/A">>
NotAvailable == <<"N/A">>

\* sub.billingCycle === "annually" ? sub.cost / 12 : sub.cost, in twelfths of a cent
MonthlyCostYearly(sub) ==
    IF sub.billingCycle = "yearly" THEN sub.cost ELSE sub.cost * MonthsPerYear

MonthlyCost(sub) ==
    IF sub.billingCycle = "annually" THEN sub.cost ELSE sub.cost * MonthsPerYear

\* subscriptions.reduce((total, sub) => total + monthlyCost, 0)
CalculateMonthlySpend(subs) ==
    ReduceSum([i \in 1..Len(subs) |-> MonthlyCost(subs[i])], 0)

GetNextRenewal(subs, today) ==
    IF Len(subs) = 0 THEN NotAvailable
    ELSE LET IsUpcoming(sub) == RenewalTime(sub) >= today
             upcomingRenewals == SortByRenewal(SelectSeq(subs, IsUpcoming))
         IN  IF Len(upcomingRenewals) = 0 THEN NotAvailable
             ELSE MonthDayLabel(RenewalTime(upcomingRenewals[1]))

\* Number(amount.toFixed(2)): twelfths of a cent to the nearest whole cent.
\* An exact half is taken upwards, as toFixed does with the exact decimal value.
ToFixed2Floor(amount) == amount \div MonthsPerYear

ToFixed2(amount) == (2 * amount + MonthsPerYear) \div (2 * MonthsPerYear)

\* the quotient truncated instead of rounded
RoundRatioFloor(num, den) == num \div den

\* Math.round(x) for x = num / den, den > 0: halves go up
RoundRatio(num, den) == (2 * num + den) \div (2 * den)

RECURSIVE CategoryKeys(_)
\* the keys of categoryTotals in insertion order (Object.entries order)
CategoryKeys(subs) ==
    IF subs = <<>> THEN <<>>
    ELSE LET before == CategoryKeys(SubSeq(subs, 1, Len(subs) - 1))
             c == subs[Len(subs)].category
         IN  IF \E i \in 1..Len(before) : before[i] = c THEN before ELSE Append(before, c)

GetCategorySpending(subs) ==
    IF Len(subs) = 0 THEN <<>>
    ELSE LET totalMonthlySpend == CalculateMonthlySpend(subs)
             keys == CategoryKeys(subs)
             \* categoryTotals[c] after the forEach
             CategoryTotal(c) ==
                 ReduceSum([i \in 1..Len(subs) |->
                              IF subs[i].category = c THEN MonthlyCost(subs[i]) ELSE 0], 0)
         IN  IF totalMonthlySpend = 0 THEN <<>>
             ELSE [k \in 1..Len(keys) |->
                     [category   |-> keys[k],
                      spend      |-> ToFixed2(CategoryTotal(keys[k])),
                      percentage |-> RoundRatio(CategoryTotal(keys[k]) * 100,
                                                totalMonthlySpend)]]

\* last month's spend counting an annual cost in full instead of a twelfth
GetLastMonthSpendFullCost(subs, today) ==
    LET lastMonth == SetMonth(today, GetMonth(today) - 1)
        SubscriptionStart(sub) ==
            IF sub.billingCycle = "monthly"
            THEN SetMonth(RenewalTime(sub), GetMonth(RenewalTime(sub)) - 1)
            ELSE SetFullYear(RenewalTime(sub), GetFullYear(RenewalTime(sub)) - 1)
        Contribution(sub) ==
            IF SubscriptionStart(sub) <= lastMonth THEN sub.cost * MonthsPerYear ELSE 0
    IN  ReduceSum([i \in 1..Len(subs) |-> Contribution(subs[i])], 0)

GetLastMonthSpend(subs, today) ==
    LET lastMonth == SetMonth(today, GetMonth(today) - 1)
        SubscriptionStart(sub) ==
            IF sub.billingCycle = "monthly"
            THEN SetMonth(RenewalTime(sub), GetMonth(RenewalTime(sub)) - 1)
            ELSE SetFullYear(RenewalTime(sub), GetFullYear(RenewalTime(sub)) - 1)
        Contribution(sub) ==
            IF SubscriptionStart(sub) <= lastMonth THEN MonthlyCost(sub) ELSE 0
    IN  ReduceSum([i \in 1..Len(subs) |-> Contribution(subs[i])], 0)

\* A quotient is held as numerator over denominator; 0 is 0 over 1.
Zero == [num |-> 0, den |-> 1]

ChangePercentageGuardCurrent(monthlySpend, lastMonthSpend) ==
    IF monthlySpend > 0
    THEN [num |-> (monthlySpend - lastMonthSpend) * 100, den |-> lastMonthSpend]
    ELSE Zero

ChangePercentage(monthlySpend, lastMonthSpend) ==
    IF lastMonthSpend > 0
    THEN [num |-> (monthlySpend - lastMonthSpend) * 100, den |-> lastMonthSpend]
    ELSE Zero

RenewalWindowDays == 30
MaxRenewalRows == 5

\* the rows cut to five before they are sorted
UpcomingRenewalsSliceFirst(subs, today) ==
    LET InWindow(sub) ==
            LET daysUntilRenewal == CeilDiv(RenewalTime(sub) - today, HoursPerDay)
            IN  daysUntilRenewal >= 0 /\ daysUntilRenewal <= RenewalWindowDays
        kept == SelectSeq(subs, InWindow)
    IN  SortByRenewal(SubSeq(kept, 1, Min(Len(kept), MaxRenewalRows)))

\* the rows of the upcoming-renewals table: filter, sort, slice(0, 5)
UpcomingRenewals(subs, today) ==
    LET InWindow(sub) ==
            LET daysUntilRenewal == CeilDiv(RenewalTime(sub) - today, HoursPerDay)
            IN  daysUntilRenewal >= 0 /\ daysUntilRenewal <= RenewalWindowDays
        sorted == SortByRenewal(SelectSeq(subs, InWindow))
    IN  SubSeq(sorted, 1, Min(Len(sorted), MaxRenewalRows))

\* one render pass of Dashboard with the clock reading `today`
Render(subs, today) ==
    LET monthlySpend == CalculateMonthlySpend(subs)
        lastMonthSpend == GetLastMonthSpend(subs, today)
    IN  [today            |-> today,
         monthlySpend     |-> monthlySpend,
         lastMonthSpend   |-> lastMonthSpend,
         changePercentage |-> ChangePercentage(monthlySpend, lastMonthSpend),
         categoryData     |-> GetCategorySpending(subs),
         nextRenewal      |-> GetNextRenewal(subs, today),
         activeCount      |-> Len(subs),
         renewals         |-> UpcomingRenewals(subs, today)]

-----------------------------------------------------------------------------
(* Dashboard: the 12-month trend.  Math.random() is an input of the render: *)
(* a value random / RandomScale with random in 0..RandomScale - 1.          *)

RandomScale == 100

\* new Date(today.getFullYear(), today.getMonth() - i, 1) in a month later by one
MonthDateOfNextMonth(today, i) == MakeTime(GetFullYear(today), GetMonth(today) - i + 1, 1, 0)

\* new Date(today.getFullYear(), today.getMonth() - i, 1)
MonthDate(today, i) == MakeTime(GetFullYear(today), GetMonth(today) - i, 1, 0)

RECURSIVE StepBackByMonth(_, _)
\* while (subscriptionStart > monthDate) subscriptionStart.setMonth(getMonth() - 1)
StepBackByMonth(subscriptionStart, monthDate) ==
    IF subscriptionStart > monthDate
    THEN StepBackByMonth(SetMonth(subscriptionStart, GetMonth(subscriptionStart) - 1), monthDate)
    ELSE subscriptionStart

RECURSIVE StepBackByYear(_, _)
\* while (subscriptionStart > monthDate) subscriptionStart.setFullYear(getFullYear() - 1)
StepBackByYear(subscriptionStart, monthDate) ==
    IF subscriptionStart > monthDate
    THEN StepBackByYear(SetFullYear(subscriptionStart, GetFullYear(subscriptionStart) - 1),
                        monthDate)
    ELSE subscriptionStart

\* monthSpend with the assumed start taken one cycle back, without the loop
MonthSpendSingleStep(subs, monthDate) ==
    LET SubscriptionStart(sub) ==
            IF sub.billingCycle = "monthly"
            THEN SetMonth(RenewalTime(sub), GetMonth(RenewalTime(sub)) - 1)
            ELSE SetFullYear(RenewalTime(sub), GetFullYear(RenewalTime(sub)) - 1)
        Contribution(sub) ==
            IF SubscriptionStart(sub) <= monthDate THEN MonthlyCost(sub) ELSE 0
    IN  ReduceSum([j \in 1..Len(subs) |-> Contribution(subs[j])], 0)

\* monthSpend after the forEach of one iteration, in twelfths of a cent
MonthSpend(subs, monthDate) ==
    LET SubscriptionStart(sub) ==
            IF sub.billingCycle = "monthly"
            THEN StepBackByMonth(RenewalTime(sub), monthDate)
            ELSE StepBackByYear(RenewalTime(sub), monthDate)
        Contribution(sub) ==
            IF SubscriptionStart(sub) <= monthDate THEN MonthlyCost(sub) ELSE 0
    IN  ReduceSum([j \in 1..Len(subs) |-> Contribution(subs[j])], 0)

\* adjustedSpend with a jitter of 25% either way
AdjustedSpendWide(monthSpend, random) ==
    LET variation == 5 * (2 * random - RandomScale)
        product == monthSpend * (20 * RandomScale + variation)
    IN  IF product > 0 THEN product ELSE 0

\* variation = (Math.random() - 0.5) * 0.3 is 3 * (2 * random - RandomScale)
\* over 20 * RandomScale; adjustedSpend = Math.max(0, monthSpend * (1 + variation))
\* is held in units of 1 / (20 * RandomScale) of a twelfth of a cent
AdjustedSpend(monthSpend, random) ==
    LET variation == 3 * (2 * random - RandomScale)
        product == monthSpend * (20 * RandomScale + variation)
    IN  IF product > 0 THEN product ELSE 0

\* chartData: the point pushed by iteration i = 11, ..., 0 is point 12 - i;
\* randoms[k] is the value Math.random() returns in the iteration of point k.
\* total is Number(adjustedSpend.toFixed(2)), in cents
GenerateChartData(subs, today, randoms) ==
    [k \in 1..MonthsPerYear |->
        LET monthDate == MonthDate(today, MonthsPerYear - k)
        IN  [name  |-> MonthShortNames[GetMonth(monthDate) + 1],
             total |-> RoundRatio(AdjustedSpend(MonthSpend(subs, monthDate), randoms[k]),
                                  MonthsPerYear * 20 * RandomScale)]]

\* the locals monthSpend of the twelve iterations
MonthSpends(subs, today) ==
    [k \in 1..MonthsPerYear |-> MonthSpend(subs, MonthDate(today, MonthsPerYear - k))]

\* the change line of the Last Month's Spend card; the percentage is carried
\* as the quotient, its toFixed(1) text is not modelled
ChangeLabel(lastMonthSpend, changePercentage) ==
    IF lastMonthSpend > 0
    THEN <<IF changePercentage.num >= 0 THEN "+" ELSE "", changePercentage, "% from prev">>
    ELSE <<"No data">>

\* the class of the change line: changePercentage >= 0 ? "positive" : "negative"
\* (the denominator of the quotient is positive)
StatChangeClass(changePercentage) ==
    IF changePercentage.num >= 0 THEN "positive" ELSE "negative"

\* what the category chart's container shows
CategoryChart(categoryData) ==
    IF Len(categoryData) > 0 THEN "PieChart" ELSE "No category data available"

\* the renewals area testing the 30-day window before the collection's length
RenewalsAreaWindowFirst(subs, today) ==
    IF Len(UpcomingRenewals(subs, today)) = 0
    THEN "No subscriptions renewing in the next 30 days."
    ELSE IF Len(subs) > 0 THEN "renewals-table"
         ELSE "Add subscriptions to track upcoming renewals."

\* what the upcoming-renewals area shows: the table, with a message in its
\* body when no subscription is within the window, or the message of the
\* empty collection
RenewalsArea(subs, today) ==
    IF Len(subs) > 0
    THEN IF Len(UpcomingRenewals(subs, today)) = 0
         THEN "No subscriptions renewing in the next 30 days."
         ELSE "renewals-table"
    ELSE "Add subscriptions to track upcoming renewals."

\* one render pass of Dashboard, the trend and the renewals area included;
\* the change line and the category chart are drawn from lastMonthSpend,
\* changePercentage and categoryData of the same pass
RenderWithChart(subs, today, randoms) ==
    Render(subs, today)
    @@ [chartData    |-> GenerateChartData(subs, today, randoms),
        monthSpends  |-> MonthSpends(subs, today),
        renewalsArea |-> RenewalsArea(subs, today)]

-----------------------------------------------------------------------------
(* PaymentModal: pure helpers *)

PaymentSteps == {"payment", "summary", "processing", "success"}
Fields == {"cardNumber", "expiryDate", "cvv", "cardholderName"}

InitialPaymentInfo ==
    [cardNumber |-> <<>>, expiryDate |-> <<>>, cvv |-> <<>>, cardholderName |-> <<>>]

\* errors is an object whose absent keys and "" values are both falsy wherever
\* it is read; "" stands for both.
NoErrors == [f \in Fields |-> ""]

MinCardDigits == 13
MaxCardChars == 19
MaxExpiryChars == 5
MaxCvvChars == 4

RECURSIVE JoinGroups(_)
\* the for loop pushing substring(i, i + 4) and parts.join(" ")
JoinGroups(m) ==
    IF Len(m) <= 4 THEN m
    ELSE SubSeq(m, 1, 4) \o <<" ">> \o JoinGroups(SubSeq(m, 5, Len(m)))

\* a formatting that strips the non-digits and does not group
FormatCardNumberUngrouped(value) == StripNonDigits(value)

FormatCardNumber(value) ==
    LET v == StripNonDigits(value)
        \* v.match(/\d{4,16}/g)[0]: v is all digits, so the first match is its
        \* first 16 characters when it has at least 4, and there is none otherwise
        match == IF Len(v) >= 4 THEN SubSeq(v, 1, Min(Len(v), 16)) ELSE <<>>
    IN  IF match # <<>> THEN JoinGroups(match) ELSE v

\* a formatting that puts the slash in from the third digit on
FormatExpiryDateSlashFromThree(value) ==
    LET v == StripNonDigits(value)
    IN  IF Len(v) >= 3
        THEN SubSeq(v, 1, 2) \o <<"/">> \o SubSeq(v, 3, Min(Len(v), 4))
        ELSE v

FormatExpiryDate(value) ==
    LET v == StripNonDigits(value)
    IN  IF Len(v) >= 2
        THEN SubSeq(v, 1, 2) \o <<"/">> \o SubSeq(v, 3, Min(Len(v), 4))
        ELSE v

GetCardType(cardNumber) ==
    LET num == StripNonDigits(cardNumber)
        first == IF num = <<>> THEN "" ELSE num[1]
    IN  IF first = "4" THEN "Visa"
        ELSE IF first = "5" \/ first = "2" THEN "Mastercard"
        ELSE IF first = "3" THEN "American Express"
        ELSE ""

\* validatePayment testing the raw values for emptiness instead of trimming them
ValidationErrorsNoTrim(info) ==
    [f \in Fields |->
        CASE f = "cardNumber" ->
                IF info.cardNumber = <<>> THEN "Card number is required"
                ELSE IF Len(StripNonDigits(info.cardNumber)) < MinCardDigits
                     THEN "Invalid card number"
                     ELSE ""
          [] f = "expiryDate" ->
                IF info.expiryDate = <<>> THEN "Expiry date is required" ELSE ""
          [] f = "cvv" ->
                IF info.cvv = <<>> THEN "CVV is required" ELSE ""
          [] f = "cardholderName" ->
                IF info.cardholderName = <<>> THEN "Cardholder name is required" ELSE ""]

\* newErrors as built by validatePayment
ValidationErrors(info) ==
    [f \in Fields |->
        CASE f = "cardNumber" ->
                IF TrimIsEmpty(info.cardNumber) THEN "Card number is required"
                ELSE IF Len(StripNonDigits(info.cardNumber)) < MinCardDigits
                     THEN "Invalid card number"
                     ELSE ""
          [] f = "expiryDate" ->
                IF TrimIsEmpty(info.expiryDate) THEN "Expiry date is required" ELSE ""
          [] f = "cvv" ->
                IF TrimIsEmpty(info.cvv) THEN "CVV is required" ELSE ""
          [] f = "cardholderName" ->
                IF TrimIsEmpty(info.cardholderName) THEN "Cardholder name is required" ELSE ""]

\* Object.keys(newErrors).length === 0
ValidatePayment(info) == \A f \in Fields : ValidationErrors(info)[f] = ""

-----------------------------------------------------------------------------
(* Subscriptions (the Registry) and its AddSubscriptionModal.  Names and   *)
(* search terms are texts of letters.                                      *)

MaxIntents == 1    \* intents in flight to the owner at one time

UpperCaseChars ==
    <<"A", "B", "C", "D", "E", "F", "G", "H", "I", "J", "K", "L", "M",
      "N", "O", "P", "Q", "R", "S", "T", "U", "V", "W", "X", "Y", "Z">>
LowerCaseChars ==
    <<"a", "b", "c", "d", "e", "f", "g", "h", "i", "j", "k", "l", "m",
      "n", "o", "p", "q", "r", "s", "t", "u", "v", "w", "x", "y", "z">>

ToLowerChar(c) ==
    IF \E i \in 1..Len(UpperCaseChars) : UpperCaseChars[i] = c
    THEN LowerCaseChars[CHOOSE i \in 1..Len(UpperCaseChars) : UpperCaseChars[i] = c]
    ELSE c

\* a toLowerCase that leaves the text as it is
ToLowerCaseKeepsCase(s) == s

\* s.toLowerCase()
ToLowerCase(s) == [i \in 1..Len(s) |-> ToLowerChar(s[i])]

\* s.includes(term): term occurs in s as a run of consecutive characters
Includes(s, term) ==
    \E offset \in 0..(Len(s) - Len(term)) : SubSeq(s, offset + 1, offset + Len(term)) = term

\* the place of a letter in the alphabet, whatever its case
LetterRank(c) ==
    LET lower == ToLowerChar(c)
    IN  CHOOSE i \in 1..Len(LowerCaseChars) : LowerCaseChars[i] = lower

RECURSIVE CompareLetters(_, _)
\* the first collation level: the letters in alphabetical order, case ignored,
\* a proper prefix before its extensions
CompareLetters(a, b) ==
    IF a = <<>> THEN (IF b = <<>> THEN 0 ELSE -1)
    ELSE IF b = <<>> THEN 1
    ELSE LET rankA == LetterRank(Head(a))
             rankB == LetterRank(Head(b))
         IN  IF rankA < rankB THEN -1
             ELSE IF rankA > rankB THEN 1
             ELSE CompareLetters(Tail(a), Tail(b))

RECURSIVE CompareCase(_, _)
\* the last collation level, for texts of the same letters: at the first
\* difference of case the lower-case letter comes first
CompareCase(a, b) ==
    IF a = <<>> \/ b = <<>> THEN 0
    ELSE IF Head(a) = Head(b) THEN CompareCase(Tail(a), Tail(b))
    ELSE IF Head(a) = ToLowerChar(Head(a)) THEN -1 ELSE 1

\* a.localeCompare(b), for texts of unaccented letters
LocaleCompare(a, b) ==
    LET letters == CompareLetters(a, b)
    IN  IF letters # 0 THEN letters ELSE CompareCase(a, b)

\* the comparator of the sort, by the value of sortBy
Compare(a, b, sortBy) ==
    CASE sortBy = "name"    -> LocaleCompare(a.name, b.name)
      [] sortBy = "cost"    -> b.cost - a.cost
      [] sortBy = "renewal" -> RenewalTime(a) - RenewalTime(b)
      [] OTHER              -> 0

RECURSIVE InsertBy(_, _, _)
\* x goes after every element that does not compare greater: the sort is stable
InsertBy(sorted, x, sortBy) ==
    IF sorted = <<>> THEN <<x>>
    ELSE IF Compare(Head(sorted), x, sortBy) <= 0
         THEN <<Head(sorted)>> \o InsertBy(Tail(sorted), x, sortBy)
         ELSE <<x>> \o sorted

RECURSIVE SortBy(_, _)
\* array.sort(comparator)
SortBy(s, sortBy) ==
    IF s = <<>> THEN <<>>
    ELSE InsertBy(SortBy(SubSeq(s, 1, Len(s) - 1), sortBy), s[Len(s)], sortBy)

\* subscriptions.filter(...).sort(...): the cards of the grid, in order
FilteredAndSortedSubscriptions(subs, reg) ==
    LET Keep(sub) ==
            LET matchesSearch == Includes(ToLowerCase(sub.name), ToLowerCase(reg.searchTerm))
                matchesFilter == reg.filterBy = "all" \/ sub.category = reg.filterBy
            IN  matchesSearch /\ matchesFilter
    IN  SortBy(SelectSeq(subs, Keep), reg.sortBy)

\* the subscriptions prop after a render with state reg: filter returns a new
\* array and sort reorders that array in place, so the prop is as it was
SubscriptionsAfterRender(subs, reg) == subs

InitialFormData ==
    [name |-> <<>>, description |-> <<>>, plan |-> <<>>, cost |-> <<>>,
     renewalDate |-> <<>>, billingCycle |-> "monthly", category |-> ""]

\* the state of Subscriptions after its first render; formData is the state
\* of the mounted AddSubscriptionModal and the initial one while none is
\* mounted; alertShown is the message of the alert on screen, "" for none
InitialRegistry ==
    [searchTerm |-> <<>>, filterBy |-> "all", sortBy |-> "name", showAddModal |-> FALSE,
     formData |-> InitialFormData, alertShown |-> ""]

Standard == <<"S", "t", "a", "n", "d", "a", "r", "d">>

DigitValue(c) == CHOOSE d \in 0..9 : ToString(d) = c

RECURSIVE DigitsValue(_)
DigitsValue(s) ==
    IF s = <<>> THEN 0
    ELSE 10 * DigitsValue(SubSeq(s, 1, Len(s) - 1)) + DigitValue(s[Len(s)])

\* parseFloat of the text of the number input (digits, at most one point and
\* at most two decimals, as step="0.01" admits), in cents
ParseFloat(text) ==
    LET points == {i \in 1..Len(text) : text[i] = "."}
        point == IF points = {} THEN Len(text) + 1 ELSE CHOOSE i \in points : TRUE
        whole == SubSeq(text, 1, point - 1)
        decimals == SubSeq(text, point + 1, Len(text))
    IN  100 * DigitsValue(whole)
        + (IF Len(decimals) = 1 THEN 10 * DigitsValue(decimals) ELSE DigitsValue(decimals))

\* the validation of handleSubmit requiring only that some field is filled
FormIsIncompleteWhenAllEmpty(formData) ==
    /\ formData.name = <<>>
    /\ formData.cost = <<>>
    /\ formData.renewalDate = <<>>
    /\ formData.category = ""

\* !formData.name || !formData.cost || !formData.renewalDate || !formData.category
FormIsIncomplete(formData) ==
    \/ formData.name = <<>>
    \/ formData.cost = <<>>
    \/ formData.renewalDate = <<>>
    \/ formData.category = ""

\* the argument of onAdd
CreationIntent(formData) ==
    [name         |-> formData.name,
     description  |-> formData.description,
     plan         |-> IF formData.plan # <<>> THEN formData.plan ELSE Standard,
     cost         |-> ParseFloat(formData.cost),
     renewalDate  |-> formData.renewalDate,
     billingCycle |-> formData.billingCycle,
     category     |-> formData.category]

\* no alert is on screen: alert() blocks the page until it is dismissed
NoAlert == registry.alertShown = ""

\* the search input's onChange
SetSearchTerm(value) ==
    /\ NoAlert
    /\ registry' = [registry EXCEPT !.searchTerm = value]
    /\ subscriptions' = SubscriptionsAfterRender(subscriptions, registry')
    /\ UNCHANGED <<view, modalVars, intents>>

\* the category select's onChange
SetFilterBy(value) ==
    /\ NoAlert
    /\ registry' = [registry EXCEPT !.filterBy = value]
    /\ subscriptions' = SubscriptionsAfterRender(subscriptions, registry')
    /\ UNCHANGED <<view, modalVars, intents>>

\* the sort select's onChange
SetSortBy(value) ==
    /\ NoAlert
    /\ registry' = [registry EXCEPT !.sortBy = value]
    /\ subscriptions' = SubscriptionsAfterRender(subscriptions, registry')
    /\ UNCHANGED <<view, modalVars, intents>>

\* the Add Subscription button: a closed modal is mounted with fresh formData
OpenAddModal ==
    /\ NoAlert
    /\ registry' = [registry EXCEPT !.showAddModal = TRUE]
    /\ subscriptions' = SubscriptionsAfterRender(subscriptions, registry')
    /\ UNCHANGED <<view, modalVars, intents>>

\* onClose of the add modal (overlay, close button): the modal is unmounted
CloseAddModal ==
    /\ NoAlert
    /\ registry.showAddModal
    /\ registry' = [registry EXCEPT !.showAddModal = FALSE, !.formData = InitialFormData]
    /\ subscriptions' = SubscriptionsAfterRender(subscriptions, registry')
    /\ UNCHANGED <<view, modalVars, intents>>

\* handleInputChange of AddSubscriptionModal
HandleFormInputChange(field, value) ==
    /\ NoAlert
    /\ registry.showAddModal
    /\ registry' = [registry EXCEPT !.formData[field] = value]
    /\ subscriptions' = SubscriptionsAfterRender(subscriptions, registry')
    /\ UNCHANGED <<view, modalVars, intents>>

\* handleSubmit: the alert and nothing else when a required field is empty,
\* otherwise onAdd and onClose
HandleSubmit ==
    /\ NoAlert
    /\ registry.showAddModal
    /\ IF FormIsIncomplete(registry.formData)
       THEN /\ registry' = [registry EXCEPT
                               !.alertShown = "Please fill in all required fields"]
            /\ UNCHANGED intents
       ELSE /\ Len(intents) < MaxIntents
            /\ intents' = Append(intents, [call |-> "onAddSubscription",
                                           arg  |-> CreationIntent(registry.formData)])
            /\ registry' = [registry EXCEPT !.showAddModal = FALSE,
                                            !.formData = InitialFormData]
    /\ subscriptions' = SubscriptionsAfterRender(subscriptions, registry')
    /\ UNCHANGED <<view, modalVars>>

\* the user dismisses the alert; handleSubmit returns
DismissAlert ==
    /\ ~NoAlert
    /\ registry' = [registry EXCEPT !.alertShown = ""]
    /\ subscriptions' = SubscriptionsAfterRender(subscriptions, registry')
    /\ UNCHANGED <<view, modalVars, intents>>

\* a delete click that removes the card at once and tells nobody
HandleDeleteClickLocally(id) ==
    /\ NoAlert
    /\ LET cards == FilteredAndSortedSubscriptions(subscriptions, registry)
       IN  \E k \in 1..Len(cards) : cards[k].id = id
    /\ LET Kept(sub) == sub.id # id
       IN  subscriptions' = SelectSeq(subscriptions, Kept)
    /\ UNCHANGED <<view, modalVars, registry, intents>>

\* the delete button of the card of subscription id: onDeleteSubscription(id)
HandleDeleteClick(id) ==
    /\ NoAlert
    /\ LET cards == FilteredAndSortedSubscriptions(subscriptions, registry)
       IN  \E k \in 1..Len(cards) : cards[k].id = id
    /\ Len(intents) < MaxIntents
    /\ intents' = Append(intents, [call |-> "onDeleteSubscription", arg |-> id])
    /\ subscriptions' = SubscriptionsAfterRender(subscriptions, registry)
    /\ UNCHANGED <<view, modalVars, registry>>

-----------------------------------------------------------------------------
(* Inputs of the model *)

\* values of e.target.value handed to the inputs' onChange handlers
CardNumberInputs ==
    { <<>>,
      Rep("4", 16),
      <<"5">> \o Rep("1", 12),
      <<"3", "7", " ", "1", "1", "-", "1", "1", "1", "1", "1", "1", "1", "1">>,
      Rep("2", 17) }
ExpiryInputs == { <<>>, <<"1">>, <<"1", "2", "2", "5">>, <<"1", "2", "/", "2", "5", "9">> }
CvvInputs == { <<>>, <<"1", "a", "2">> }
CardholderNameInputs == { <<>>, <<" ">>, <<"A", " ", "B">> }

\* the clock readings a render can take
ClockSamples ==
    { NewDate(<<2024, 3, 15>>),
      NewDate(<<2024, 3, 15>>) + 12,
      NewDate(<<2024, 3, 31>>) + 9 }

\* new Date() at a later render: the clock never runs backwards.  A render
\* that an event handler causes reads the clock of the render before it (no
\* unit of the model's time passes inside one event); time passes in Rerender.
ClockReadings == {t \in ClockSamples : t > view.today}

\* selectedSubscription holds <<sub>>, or <<>> for null
NoSub == <<>>

\* the snapshot the payment runs start from
SampleSubscriptions ==
    << [id |-> 1, name |-> "Netflix", cost |-> 19900, billingCycle |-> "monthly",
        renewalDate |-> <<2024, 3, 15>>, category |-> "Entertainment"],
       [id |-> 2, name |-> "Figma", cost |-> 14400, billingCycle |-> "annually",
        renewalDate |-> <<2024, 3, 31>>, category |-> "Design"] >>

-----------------------------------------------------------------------------
(* Dashboard: the payment modal's mount *)

\* {showPaymentModal && selectedSubscription && <PaymentModal/>}
Mounted == showPaymentModal /\ selectedSubscription # NoSub

\* Pay Now with the payment state kept across mounts
HandlePayNowKeepsState(sub) ==
    /\ \E k \in 1..Len(view.renewals) : view.renewals[k] = sub
    /\ selectedSubscription' = <<sub>>
    /\ showPaymentModal' = TRUE
    /\ IF showPaymentModal /\ selectedSubscription # NoSub
       THEN UNCHANGED <<flowId, currentStep, paymentInfo, errors>>
       ELSE /\ flowId < MaxFlows
            /\ flowId' = flowId + 1
            /\ currentStep' = Append(currentStep, "payment")
            /\ UNCHANGED <<paymentInfo, errors>>
    /\ view' = Render(subscriptions, view.today)
    /\ UNCHANGED <<subscriptions, timers, registryVars>>

\* Pay Now on a row of the renewals table.  A closed modal is mounted afresh,
\* with the initial state of useState; an open one keeps its instance and
\* only receives the new subscription prop.
HandlePayNow(sub) ==
    /\ \E k \in 1..Len(view.renewals) : view.renewals[k] = sub
    /\ selectedSubscription' = <<sub>>
    /\ showPaymentModal' = TRUE
    /\ IF Mounted
       THEN UNCHANGED <<flowId, currentStep, paymentInfo, errors>>
       ELSE /\ flowId < MaxFlows
            /\ flowId' = flowId + 1
            /\ currentStep' = Append(currentStep, "payment")
            /\ paymentInfo' = InitialPaymentInfo
            /\ errors' = NoErrors
    /\ view' = Render(subscriptions, view.today)
    /\ UNCHANGED <<subscriptions, timers, registryVars>>

\* the controls of the rendered modal that call onClose in a step
CloseControlsNotProcessing(step) ==
    IF step = "processing" THEN {}
    ELSE {"overlay", "closeButton"} \cup (IF step = "success" THEN {"successButton"} ELSE {})

CloseControls(step) ==
    {"overlay", "closeButton"} \cup (IF step = "success" THEN {"successButton"} ELSE {})

\* onClose of the mounted modal; the unmounted instance's state is left as it was
HandleClosePayment ==
    /\ Mounted
    /\ CloseControls(currentStep[flowId]) # {}
    /\ showPaymentModal' = FALSE
    /\ selectedSubscription' = NoSub
    /\ view' = Render(subscriptions, view.today)
    /\ UNCHANGED <<subscriptions, flowId, currentStep, paymentInfo, errors, timers,
                   registryVars>>

-----------------------------------------------------------------------------
(* PaymentModal: handlers of the mounted instance *)

InStep(step) == Mounted /\ currentStep[flowId] = step

HandleInputChange(field, value) ==
    /\ paymentInfo' = [paymentInfo EXCEPT ![field] = value]
    /\ errors' = IF errors[field] # "" THEN [errors EXCEPT ![field] = ""] ELSE errors

HandleCardNumberChange(value) ==
    /\ InStep("payment")
    /\ LET formatted == FormatCardNumber(value)
       IN  IF Len(formatted) <= MaxCardChars
           THEN HandleInputChange("cardNumber", formatted)
           ELSE UNCHANGED <<paymentInfo, errors>>
    /\ UNCHANGED <<dashVars, registryVars, showPaymentModal, selectedSubscription, flowId,
                   currentStep, timers>>

HandleExpiryChange(value) ==
    /\ InStep("payment")
    /\ LET formatted == FormatExpiryDate(value)
       IN  IF Len(formatted) <= MaxExpiryChars
           THEN HandleInputChange("expiryDate", formatted)
           ELSE UNCHANGED <<paymentInfo, errors>>
    /\ UNCHANGED <<dashVars, registryVars, showPaymentModal, selectedSubscription, flowId,
                   currentStep, timers>>

\* the CVV input's onChange; maxLength keeps the typed value to 4 characters
HandleCvvChange(value) ==
    /\ InStep("payment")
    /\ Len(value) <= MaxCvvChars
    /\ HandleInputChange("cvv", StripNonDigits(value))
    /\ UNCHANGED <<dashVars, registryVars, showPaymentModal, selectedSubscription, flowId,
                   currentStep, timers>>

HandleCardholderNameChange(value) ==
    /\ InStep("payment")
    /\ HandleInputChange("cardholderName", value)
    /\ UNCHANGED <<dashVars, registryVars, showPaymentModal, selectedSubscription, flowId,
                   currentStep, timers>>

\* the Continue button, rendered in step payment only
HandleContinueToSummary ==
    /\ InStep("payment")
    /\ errors' = ValidationErrors(paymentInfo)
    /\ currentStep' = IF ValidatePayment(paymentInfo)
                      THEN [currentStep EXCEPT ![flowId] = "summary"]
                      ELSE currentStep
    /\ UNCHANGED <<dashVars, registryVars, showPaymentModal, selectedSubscription, flowId,
                   paymentInfo, timers>>

\* the Pay button without the setTimeout
HandleConfirmPaymentNoTimer ==
    /\ InStep("summary")
    /\ currentStep' = [currentStep EXCEPT ![flowId] = "processing"]
    /\ UNCHANGED <<dashVars, registryVars, showPaymentModal, selectedSubscription, flowId,
                   paymentInfo,
                   errors, timers>>

\* the Pay button, rendered in step summary only; setTimeout(..., 3000)
HandleConfirmPayment ==
    /\ InStep("summary")
    /\ currentStep' = [currentStep EXCEPT ![flowId] = "processing"]
    /\ timers' = timers \cup {flowId}
    /\ UNCHANGED <<dashVars, registryVars, showPaymentModal, selectedSubscription, flowId,
                   paymentInfo, errors>>

\* a deferred callback that sends the flow back to the card form
TimeoutCallbackToPayment(i) ==
    /\ i \in timers
    /\ timers' = timers \ {i}
    /\ currentStep' = [currentStep EXCEPT ![i] = "payment"]
    /\ UNCHANGED <<dashVars, registryVars, showPaymentModal, selectedSubscription, flowId,
                   paymentInfo, errors>>

\* the deferred callback of instance i: setCurrentStep("success") on that
\* instance's own state cell, whether or not the instance is still mounted
TimeoutCallback(i) ==
    /\ i \in timers
    /\ timers' = timers \ {i}
    /\ currentStep' = [currentStep EXCEPT ![i] = "success"]
    /\ UNCHANGED <<dashVars, registryVars, showPaymentModal, selectedSubscription, flowId,
                   paymentInfo, errors>>

-----------------------------------------------------------------------------
(* Specification of the payment flow *)

Init ==
    /\ subscriptions = SampleSubscriptions
    /\ view = Render(SampleSubscriptions, NewDate(<<2024, 3, 15>>) + 12)
    /\ showPaymentModal = FALSE
    /\ selectedSubscription = NoSub
    /\ flowId = 0
    /\ currentStep = <<>>
    /\ paymentInfo = InitialPaymentInfo
    /\ errors = NoErrors
    /\ timers = {}
    /\ registry = InitialRegistry
    /\ intents = <<>>

PayNow == \E k \in 1..Len(subscriptions) : HandlePayNow(subscriptions[k])
CardNumberChange == \E value \in CardNumberInputs : HandleCardNumberChange(value)
ExpiryChange == \E value \in ExpiryInputs : HandleExpiryChange(value)
CvvChange == \E value \in CvvInputs : HandleCvvChange(value)
CardholderNameChange == \E value \in CardholderNameInputs : HandleCardholderNameChange(value)
TimerFires == \E i \in timers : TimeoutCallback(i)

Next ==
    \/ PayNow
    \/ HandleClosePayment
    \/ CardNumberChange
    \/ ExpiryChange
    \/ CvvChange
    \/ CardholderNameChange
    \/ HandleContinueToSummary
    \/ HandleConfirmPayment
    \/ TimerFires

Spec == Init /\ [][Next]_vars

\* the event loop runs every callback whose delay has passed
FairSpec == Spec /\ WF_vars(TimerFires)

-----------------------------------------------------------------------------
(* Specification of the analytics: the owner refreshes the snapshot and    *)
(* the Dashboard renders it.  The owner is not part of these sources; it   *)
(* materialises a creation with a fresh id and executes a deletion by id.  *)

CostInputs == {0, 500, 19902}
RenewalDateInputs == { <<2024, 3, 15>>, <<2024, 3, 31>>, <<2024, 4, 15>> }
CategoryInputs == {"Entertainment", "Music"}

SubscriptionInputs ==
    [name : {"Netflix"}, cost : CostInputs, billingCycle : {"monthly", "annually"},
     renewalDate : RenewalDateInputs, category : CategoryInputs]

Ids(subs) == {subs[i].id : i \in 1..Len(subs)}

FreshId(subs) ==
    IF subs = <<>> THEN 1
    ELSE 1 + CHOOSE m \in Ids(subs) : \A j \in Ids(subs) : j <= m

OwnerCreates(fields) ==
    /\ Len(subscriptions) < MaxSubs
    /\ FreshId(subscriptions) <= MaxSubs
    /\ subscriptions' =
          Append(subscriptions,
                 [id |-> FreshId(subscriptions), name |-> fields.name, cost |-> fields.cost,
                  billingCycle |-> fields.billingCycle, renewalDate |-> fields.renewalDate,
                  category |-> fields.category])
    /\ view' = Render(subscriptions', view.today)
    /\ UNCHANGED <<modalVars, registryVars>>

OwnerDeletes(id) ==
    /\ id \in Ids(subscriptions)
    /\ LET Kept(sub) == sub.id # id
       IN  subscriptions' = SelectSeq(subscriptions, Kept)
    /\ view' = Render(subscriptions', view.today)
    /\ UNCHANGED <<modalVars, registryVars>>

\* a later render pass of the same snapshot
Rerender ==
    /\ \E t \in ClockReadings : view' = Render(subscriptions, t)
    /\ UNCHANGED <<subscriptions, modalVars, registryVars>>

InitAnalytics ==
    /\ subscriptions = <<>>
    /\ \E t \in ClockSamples : view = Render(<<>>, t)
    /\ showPaymentModal = FALSE
    /\ selectedSubscription = NoSub
    /\ flowId = 0
    /\ currentStep = <<>>
    /\ paymentInfo = InitialPaymentInfo
    /\ errors = NoErrors
    /\ timers = {}
    /\ registry = InitialRegistry
    /\ intents = <<>>

Creates == \E fields \in SubscriptionInputs : OwnerCreates(fields)
Deletes == \E id \in 1..MaxSubs : OwnerDeletes(id)

NextAnalytics ==
    \/ Creates
    \/ Deletes
    \/ Rerender

SpecAnalytics == InitAnalytics /\ [][NextAnalytics]_vars

-----------------------------------------------------------------------------
(* Specification of the analytics around a month's end: the same owner and *)
(* renders, with renewal dates on the last and first days of a month.      *)

MonthEndDateInputs == { <<2024, 3, 31>>, <<2024, 4, 1>>, <<2024, 4, 15>> }

MonthEndInputs ==
    [name : {"Netflix"}, cost : {500}, billingCycle : {"monthly", "annually"},
     renewalDate : MonthEndDateInputs, category : {"Entertainment"}]

CreatesAtMonthEnd == \E fields \in MonthEndInputs : OwnerCreates(fields)

NextMonthEnd ==
    \/ CreatesAtMonthEnd
    \/ Deletes
    \/ Rerender

SpecMonthEnd == InitAnalytics /\ [][NextMonthEnd]_vars

-----------------------------------------------------------------------------
(* Specification of the trend: the owner refreshes the snapshot and every  *)
(* render draws the twelve values of Math.random() afresh.                 *)

ChartInputs ==
    { [name |-> "Netflix", cost |-> c, billingCycle |-> "monthly",
       renewalDate |-> <<2024, 3, 31>>, category |-> "Entertainment"] : c \in {0, 500} }
    \cup
    { [name |-> "Figma", cost |-> c, billingCycle |-> "annually",
       renewalDate |-> <<2024, 4, 15>>, category |-> "Design"] : c \in {0, 500} }

\* the values of Math.random() in the twelve iterations of one render
RandomSequences ==
    { [k \in 1..MonthsPerYear |-> 0],
      [k \in 1..MonthsPerYear |-> RandomScale - 1],
      [k \in 1..MonthsPerYear |-> IF k % 2 = 0 THEN RandomScale - 1 ELSE 0] }

InitChart ==
    /\ subscriptions = <<>>
    /\ \E t \in ClockSamples, randoms \in RandomSequences :
          view = RenderWithChart(<<>>, t, randoms)
    /\ showPaymentModal = FALSE
    /\ selectedSubscription = NoSub
    /\ flowId = 0
    /\ currentStep = <<>>
    /\ paymentInfo = InitialPaymentInfo
    /\ errors = NoErrors
    /\ timers = {}
    /\ registry = InitialRegistry
    /\ intents = <<>>

ChartCreates ==
    \E fields \in ChartInputs, randoms \in RandomSequences :
        /\ Len(subscriptions) < MaxSubs
        /\ FreshId(subscriptions) <= MaxSubs
        /\ subscriptions' =
              Append(subscriptions,
                     [id |-> FreshId(subscriptions), name |-> fields.name,
                      cost |-> fields.cost, billingCycle |-> fields.billingCycle,
                      renewalDate |-> fields.renewalDate, category |-> fields.category])
        /\ view' = RenderWithChart(subscriptions', view.today, randoms)
        /\ UNCHANGED <<modalVars, registryVars>>

ChartDeletes ==
    \E id \in Ids(subscriptions), randoms \in RandomSequences :
        /\ LET Kept(sub) == sub.id # id
           IN  subscriptions' = SelectSeq(subscriptions, Kept)
        /\ view' = RenderWithChart(subscriptions', view.today, randoms)
        /\ UNCHANGED <<modalVars, registryVars>>

\* a later render pass of the same snapshot
ChartRerender ==
    /\ \E t \in ClockReadings, randoms \in RandomSequences :
          view' = RenderWithChart(subscriptions, t, randoms)
    /\ UNCHANGED <<subscriptions, modalVars, registryVars>>

NextChart ==
    \/ ChartCreates
    \/ ChartDeletes
    \/ ChartRerender

SpecChart == InitChart /\ [][NextChart]_vars

-----------------------------------------------------------------------------
(* Specification of the add-subscription form: the user opens the modal,   *)
(* edits its fields, submits and closes.                                   *)

\* (field, e.target.value) of the form's onChange events
FormInputs ==
    { <<"name", <<>> >>, <<"name", <<"C", "a", "b">> >>,
      <<"description", <<>> >>, <<"description", <<"t", "v">> >>,
      <<"plan", <<>> >>, <<"plan", <<"P", "r", "o">> >>,
      <<"cost", <<>> >>, <<"cost", <<"0">> >>, <<"cost", <<"9", ".", "9", "9">> >>,
      <<"renewalDate", <<>> >>, <<"renewalDate", <<2024, 4, 1>> >>,
      <<"billingCycle", "monthly">>, <<"billingCycle", "annually">>,
      <<"category", "">>, <<"category", "Music">> }

InitAddForm ==
    /\ subscriptions = <<>>
    /\ view = Render(<<>>, NewDate(<<2024, 3, 15>>) + 12)
    /\ showPaymentModal = FALSE
    /\ selectedSubscription = NoSub
    /\ flowId = 0
    /\ currentStep = <<>>
    /\ paymentInfo = InitialPaymentInfo
    /\ errors = NoErrors
    /\ timers = {}
    /\ registry = InitialRegistry
    /\ intents = <<>>

FormInputChange == \E input \in FormInputs : HandleFormInputChange(input[1], input[2])

NextAddForm ==
    \/ OpenAddModal
    \/ CloseAddModal
    \/ FormInputChange
    \/ HandleSubmit
    \/ DismissAlert

SpecAddForm == InitAddForm /\ [][NextAddForm]_vars

-----------------------------------------------------------------------------
(* Specification of the Registry: the owner supplies snapshots, the user   *)
(* searches, filters, sorts and clicks delete, and the owner handles the   *)
(* intents in the order they were emitted.  The owner is not part of these *)
(* sources; it gives a created subscription the smallest unused id and     *)
(* turns a creation down when the snapshot is full.                        *)

\* the subscriptions the owner's snapshots are made of
RegistrySubscriptions ==
    { [id |-> 1, name |-> <<"B", "o", "x">>, description |-> <<>>,
       plan |-> <<"P", "r", "o">>, cost |-> 500, billingCycle |-> "monthly",
       renewalDate |-> <<2024, 4, 15>>, category |-> "Music"],
      [id |-> 2, name |-> <<"a", "b">>, description |-> <<>>,
       plan |-> Standard, cost |-> 14400, billingCycle |-> "annually",
       renewalDate |-> <<2024, 3, 31>>, category |-> "Entertainment"],
      [id |-> 3, name |-> <<"C", "a", "b">>, description |-> <<>>,
       plan |-> Standard, cost |-> 999, billingCycle |-> "monthly",
       renewalDate |-> <<2024, 4, 1>>, category |-> "Music"],
      [id |-> 4, name |-> <<"a", "B">>, description |-> <<>>,
       plan |-> Standard, cost |-> 500, billingCycle |-> "monthly",
       renewalDate |-> <<2024, 3, 31>>, category |-> "Design"] }

\* the snapshots: up to MaxSubs of these subscriptions, in any order
RegistrySnapshots ==
    UNION { { snapshot \in [1..n -> RegistrySubscriptions] :
                \A i, j \in 1..n : i # j => snapshot[i] # snapshot[j] } : n \in 0..MaxSubs }

SearchInputs == { <<>>, <<"b">>, <<"b", "O">> }
FilterInputs == {"all", "Music"}
SortInputs == {"name", "cost", "renewal"}

UnusedId(subs) == CHOOSE i \in 1..(Len(subs) + 1) :
                     i \notin Ids(subs) /\ \A j \in 1..(i - 1) : j \in Ids(subs)

OwnerHandlesIntent ==
    /\ intents # <<>>
    /\ LET intent == Head(intents)
           Kept(sub) == sub.id # intent.arg
       IN  subscriptions' =
              IF intent.call = "onAddSubscription"
              THEN IF Len(subscriptions) < MaxSubs
                   THEN Append(subscriptions,
                               [id |-> UnusedId(subscriptions)] @@ intent.arg)
                   ELSE subscriptions
              ELSE SelectSeq(subscriptions, Kept)
    /\ intents' = Tail(intents)
    /\ view' = Render(subscriptions', view.today)
    /\ UNCHANGED <<modalVars, registry>>

\* the owner's state changed for a reason of its own
OwnerSupplies(snapshot) ==
    /\ subscriptions' = snapshot
    /\ view' = Render(subscriptions', view.today)
    /\ UNCHANGED <<modalVars, registry, intents>>

InitRegistry ==
    /\ subscriptions = <<>>
    /\ view = Render(<<>>, NewDate(<<2024, 3, 15>>) + 12)
    /\ showPaymentModal = FALSE
    /\ selectedSubscription = NoSub
    /\ flowId = 0
    /\ currentStep = <<>>
    /\ paymentInfo = InitialPaymentInfo
    /\ errors = NoErrors
    /\ timers = {}
    /\ registry = InitialRegistry
    /\ intents = <<>>

SearchChange == \E value \in SearchInputs : SetSearchTerm(value)
FilterChange == \E value \in FilterInputs : SetFilterBy(value)
SortChange == \E value \in SortInputs : SetSortBy(value)
DeleteClick == \E id \in Ids(subscriptions) : HandleDeleteClick(id)
SnapshotChange == \E snapshot \in RegistrySnapshots : OwnerSupplies(snapshot)

NextRegistry ==
    \/ SearchChange
    \/ FilterChange
    \/ SortChange
    \/ DeleteClick
    \/ OwnerHandlesIntent
    \/ SnapshotChange

SpecRegistry == InitRegistry /\ [][NextRegistry]_vars

-----------------------------------------------------------------------------
(* Specification of the views: the Registry and the Dashboard render the   *)
(* same snapshot, the user acts on both, and the owner handles the intents. *)

\* the snapshot the views start from: due within the renewals window
ViewsSample ==
    << [id |-> 1, name |-> <<"a", "b">>, description |-> <<>>,
        plan |-> Standard, cost |-> 14400, billingCycle |-> "annually",
        renewalDate |-> <<2024, 3, 31>>, category |-> "Entertainment"] >>

\* (field, e.target.value) of the form's onChange events in this specification
RequiredFormInputs ==
    { <<"name", <<"C", "a", "b">> >>, <<"cost", <<"9", ".", "9", "9">> >>,
      <<"renewalDate", <<2024, 4, 1>> >>, <<"category", "Music">> }

InitViews ==
    /\ subscriptions = ViewsSample
    /\ view = Render(ViewsSample, NewDate(<<2024, 3, 15>>) + 12)
    /\ showPaymentModal = FALSE
    /\ selectedSubscription = NoSub
    /\ flowId = 0
    /\ currentStep = <<>>
    /\ paymentInfo = InitialPaymentInfo
    /\ errors = NoErrors
    /\ timers = {}
    /\ registry = InitialRegistry
    /\ intents = <<>>

\* the owner has handled every intent.  In this specification the owner is
\* prompt: its callback runs inside the event that emits the intent and the
\* snapshot it produces is delivered before the next event of the user.
OwnerIdle == intents = <<>>

SearchTyped == OwnerIdle /\ SetSearchTerm(<<"b">>)
FilterChosen == OwnerIdle /\ SetFilterBy("Music")
SortChosen == OwnerIdle /\ SetSortBy("cost")
AddClicked == OwnerIdle /\ OpenAddModal
AddModalClosed == OwnerIdle /\ CloseAddModal
RequiredFormInputChange ==
    /\ OwnerIdle
    /\ \E input \in RequiredFormInputs : HandleFormInputChange(input[1], input[2])
FormSubmitted == OwnerIdle /\ HandleSubmit
AlertDismissed == OwnerIdle /\ DismissAlert
CardDeleteClicked == OwnerIdle /\ DeleteClick
DashboardPayNow == OwnerIdle /\ NoAlert /\ PayNow
DashboardClosePayment == OwnerIdle /\ NoAlert /\ HandleClosePayment

NextViews ==
    \/ SearchTyped
    \/ FilterChosen
    \/ SortChosen
    \/ AddClicked
    \/ AddModalClosed
    \/ RequiredFormInputChange
    \/ FormSubmitted
    \/ AlertDismissed
    \/ CardDeleteClicked
    \/ DashboardPayNow
    \/ DashboardClosePayment
    \/ OwnerHandlesIntent

SpecViews == InitViews /\ [][NextViews]_vars

-----------------------------------------------------------------------------
(* Specification of the card-number field: the user opens the payment      *)
(* modal, types at the end of the field, deletes its last character and    *)
(* pastes over it.                                                         *)

\* the characters typed: a digit, a space and a letter
CardKeys == {"1", " ", "x"}

\* the texts pasted over the field
CardPastes ==
    { <<"4">> \o Rep("1", 15),
      <<"5", "5", "0", "0", " ", "0", "0", "0", "0", "-", "0", "0", "0", "4">>,
      Rep("2", 17),
      <<"3", "7", "8", "2", " ", "8", "2", "2", "4", "6", "3", " ", "1", "0", "0", "0", "5">>,
      <<"a", "9", "b">>,
      <<"6", "0", "1", "1", "0", "0", "0", "0", "0", "0", "0", "0", "0", "0", "0", "0", "0", "0", "0", "0">> }

\* e.target.value of the events the field can raise in the current state
CardEditValues ==
    {Append(paymentInfo.cardNumber, c) : c \in CardKeys}
    \cup (IF paymentInfo.cardNumber = <<>> THEN {}
          ELSE {SubSeq(paymentInfo.cardNumber, 1, Len(paymentInfo.cardNumber) - 1)})
    \cup CardPastes

CardKeyTyped == \E c \in CardKeys : HandleCardNumberChange(Append(paymentInfo.cardNumber, c))
CardBackspace ==
    /\ paymentInfo.cardNumber # <<>>
    /\ HandleCardNumberChange(SubSeq(paymentInfo.cardNumber, 1, Len(paymentInfo.cardNumber) - 1))
CardPasted == \E value \in CardPastes : HandleCardNumberChange(value)

NextCardEntry ==
    \/ PayNow
    \/ CardKeyTyped
    \/ CardBackspace
    \/ CardPasted

SpecCardEntry == Init /\ [][NextCardEntry]_vars

-----------------------------------------------------------------------------
(* Specification of the expiry field: the same edits on the expiry input.  *)

ExpiryKeys == {"1", "2", "5", "/", "x"}

ExpiryPastes ==
    { <<"1", "2", "2", "5">>, <<"1", "2", "/", "2", "5", "9">>, <<"0", "9", " ", "/", " ", "3", "0">>,
      <<"7">>, <<"1", "2">> }

\* e.target.value of the events the field can raise in the current state
ExpiryEditValues ==
    {Append(paymentInfo.expiryDate, c) : c \in ExpiryKeys}
    \cup (IF paymentInfo.expiryDate = <<>> THEN {}
          ELSE {SubSeq(paymentInfo.expiryDate, 1, Len(paymentInfo.expiryDate) - 1)})
    \cup ExpiryPastes

ExpiryKeyTyped == \E c \in ExpiryKeys : HandleExpiryChange(Append(paymentInfo.expiryDate, c))
ExpiryBackspace ==
    /\ paymentInfo.expiryDate # <<>>
    /\ HandleExpiryChange(SubSeq(paymentInfo.expiryDate, 1, Len(paymentInfo.expiryDate) - 1))
ExpiryPasted == \E value \in ExpiryPastes : HandleExpiryChange(value)

NextExpiryEntry ==
    \/ PayNow
    \/ ExpiryKeyTyped
    \/ ExpiryBackspace
    \/ ExpiryPasted

SpecExpiryEntry == Init /\ [][NextExpiryEntry]_vars

-----------------------------------------------------------------------------
(* Specification of the trend's history: the owner supplies snapshots with *)
(* renewal dates in the past, at month ends, on a leap day and more than a *)
(* year ahead, and the Dashboard renders them again as time passes.        *)

TrendDates ==
    { <<2023, 3, 1>>, <<2023, 12, 31>>, <<2024, 1, 31>>, <<2024, 2, 29>>, <<2024, 3, 1>>,
      <<2024, 3, 15>>, <<2024, 3, 31>>, <<2024, 4, 15>>, <<2025, 5, 31>> }

TrendSubscription(id, cost, billingCycle, renewalDate) ==
    [id |-> id, name |-> "Netflix", cost |-> cost, billingCycle |-> billingCycle,
     renewalDate |-> renewalDate, category |-> "Entertainment"]

\* the snapshots: none, one subscription, or a monthly and an annual one
\* renewing on the same date
TrendSnapshots ==
    {<<>>}
    \cup { <<TrendSubscription(1, cost, billingCycle, renewalDate)>> :
              cost \in {500, 1201}, billingCycle \in {"monthly", "annually"},
              renewalDate \in TrendDates }
    \cup { <<TrendSubscription(1, 500, "monthly", renewalDate),
             TrendSubscription(2, 1201, "annually", renewalDate)>> : renewalDate \in TrendDates }

\* Math.random() returning 0.5 in every iteration: no jitter
TrendRandoms == [k \in 1..MonthsPerYear |-> RandomScale \div 2]

TrendSnapshotChange ==
    \E snapshot \in TrendSnapshots :
        /\ subscriptions' = snapshot
        /\ view' = RenderWithChart(subscriptions', view.today, TrendRandoms)
        /\ UNCHANGED <<modalVars, registryVars>>

\* a later render pass of the same snapshot
TrendRerender ==
    /\ \E t \in ClockReadings : view' = RenderWithChart(subscriptions, t, TrendRandoms)
    /\ UNCHANGED <<subscriptions, modalVars, registryVars>>

InitTrendHistory ==
    /\ subscriptions = <<>>
    /\ \E t \in ClockSamples : view = RenderWithChart(<<>>, t, TrendRandoms)
    /\ showPaymentModal = FALSE
    /\ selectedSubscription = NoSub
    /\ flowId = 0
    /\ currentStep = <<>>
    /\ paymentInfo = InitialPaymentInfo
    /\ errors = NoErrors
    /\ timers = {}
    /\ registry = InitialRegistry
    /\ intents = <<>>

NextTrendHistory ==
    \/ TrendSnapshotChange
    \/ TrendRerender

SpecTrendHistory == InitTrendHistory /\ [][NextTrendHistory]_vars

-----------------------------------------------------------------------------
(* Specification of the renewals table: the owner supplies snapshots of up *)
(* to eight subscriptions renewing around the clock readings, and the      *)
(* Dashboard renders them again as time passes.                            *)

\* renewal dates from the day before the first clock reading to 31 days
\* after it, in no particular order
RenewalPoolDates ==
    << <<2024, 4, 14>>, <<2024, 3, 25>>, <<2024, 4, 1>>, <<2024, 3, 14>>,
       <<2024, 3, 31>>, <<2024, 3, 15>>, <<2024, 4, 15>>, <<2024, 3, 20>> >>

RenewalPool ==
    [i \in 1..Len(RenewalPoolDates) |->
        [id |-> i, name |-> "Netflix", cost |-> 500,
         billingCycle |-> IF i % 2 = 0 THEN "monthly" ELSE "annually",
         renewalDate |-> RenewalPoolDates[i], category |-> "Entertainment"]]

\* the snapshots: every run of consecutive subscriptions of the pool
RenewalSnapshots ==
    {<<>>} \cup {SubSeq(RenewalPool, i, j) : i, j \in 1..Len(RenewalPool)}

RenewalSnapshotChange == \E snapshot \in RenewalSnapshots : OwnerSupplies(snapshot)

NextRenewals ==
    \/ RenewalSnapshotChange
    \/ Rerender

SpecRenewals == InitAnalytics /\ [][NextRenewals]_vars

-----------------------------------------------------------------------------
(* Properties of the payment flow *)

\* instance i has been torn down: a newer one exists, or the modal is closed
Dismissed(i) == i < flowId \/ ~Mounted

\* C1: the step of every payment flow instance starts at payment and changes
\* only payment -> summary (by Continue), summary -> processing (by Pay) and
\* processing -> success (by the timer); no step is revisited and success is
\* never left (a close tears the instance down without changing its step).
C1_StepsAdvanceLinearly ==
    [][ /\ \A i \in DOMAIN currentStep' \ DOMAIN currentStep : currentStep'[i] = "payment"
        /\ \A i \in DOMAIN currentStep :
              currentStep'[i] # currentStep[i] =>
                 \/ /\ currentStep[i] = "payment" /\ currentStep'[i] = "summary"
                    /\ HandleContinueToSummary
                 \/ /\ currentStep[i] = "summary" /\ currentStep'[i] = "processing"
                    /\ HandleConfirmPayment
                 \/ /\ currentStep[i] = "processing" /\ currentStep'[i] = "success"
                    /\ TimeoutCallback(i) ]_vars

\* a second instance is under way after the first one has run to success
C1_Witness ==
    /\ flowId = 2 /\ Mounted
    /\ currentStep[1] = "success"
    /\ currentStep[2] = "processing"

IsEmptyText(s) == Len(s) = 0
IsBlankText(s) == \A i \in 1..Len(s) : s[i] = " "
DigitCount(s) == Cardinality({i \in 1..Len(s) : s[i] \in DigitChars})

\* C2 as claimed: Continue moves to summary if and only if the four fields are
\* non-empty and the card number holds at least 13 digits; otherwise the step
\* stays payment and exactly the failing fields get a message.
C2_ContinueIffNonEmpty ==
    [][ HandleContinueToSummary =>
          LET Fails(f) == \/ IsEmptyText(paymentInfo[f])
                          \/ f = "cardNumber" /\ DigitCount(paymentInfo.cardNumber) < 13
          IN  /\ currentStep'[flowId] = "summary" <=> \A f \in Fields : ~Fails(f)
              /\ (\E f \in Fields : Fails(f)) => currentStep'[flowId] = "payment"
              /\ \A f \in Fields : errors'[f] # "" <=> Fails(f) ]_vars

\* C2 as amended: Continue moves to summary if and only if the four fields are
\* non-blank (non-empty after trimming whitespace) and the card number holds
\* at least 13 digits; otherwise the step stays payment and exactly the
\* failing fields get a message.
C2_ContinueIffNonBlank ==
    [][ HandleContinueToSummary =>
          LET Fails(f) == \/ IsBlankText(paymentInfo[f])
                          \/ f = "cardNumber" /\ DigitCount(paymentInfo.cardNumber) < 13
          IN  /\ currentStep'[flowId] = "summary" <=> \A f \in Fields : ~Fails(f)
              /\ (\E f \in Fields : Fails(f)) => currentStep'[flowId] = "payment"
              /\ \A f \in Fields : errors'[f] # "" <=> Fails(f) ]_vars

\* Continue was pressed with a cardholder name of one space and the other
\* fields valid: the step stayed payment with only the cardholder-name message
C2_Witness ==
    /\ InStep("payment")
    /\ paymentInfo.cardholderName = <<" ">>
    /\ DigitCount(paymentInfo.cardNumber) >= 13
    /\ errors.cardholderName # ""
    /\ \A f \in Fields \ {"cardholderName"} : errors[f] = "" /\ paymentInfo[f] # <<>>

\* C3: once a flow has been closed, its deferred callback writes no state of
\* that flow.
C3_StaleCallbackIsNoOp ==
    [][ \A i \in DOMAIN currentStep : Dismissed(i) => currentStep'[i] = currentStep[i] ]_vars

\* C4 as claimed: no close happens while the step is processing.
C4_NoCloseWhileProcessing ==
    [][ HandleClosePayment => currentStep[flowId] # "processing" ]_vars

\* C4 as amended: the close action is available in every step of a mounted
\* flow, processing included: the overlay and the close button call onClose.
C4_CloseAvailableInEveryStep ==
    Mounted => {"overlay", "closeButton"} \subseteq CloseControls(currentStep[flowId])

\* a flow was closed while processing: it is torn down with its timer pending
C4_Witness == \E i \in timers : Dismissed(i) /\ currentStep[i] = "processing"

\* C5: Pay moves the step to processing; a flow that stays open then reaches
\* success, and processing is left for success only.
C5_ProcessingLeadsToSuccess ==
    /\ [][ HandleConfirmPayment => currentStep'[flowId] = "processing" ]_vars
    /\ [][ \A i \in DOMAIN currentStep :
              currentStep[i] = "processing" /\ currentStep'[i] # "processing"
                 => currentStep'[i] = "success" ]_vars
    /\ \A i \in 1..MaxFlows :
          (Mounted /\ flowId = i /\ currentStep[i] = "processing")
             ~> (i \in DOMAIN currentStep /\ (Dismissed(i) \/ currentStep[i] = "success"))

\* the open flow has reached success and no callback is pending
C5_Witness == Mounted /\ currentStep[flowId] = "success" /\ timers = {}

\* C6: when the modal is opened after a close, the flow starts in step
\* payment with the four fields empty and no error message.
C6_ReopenStartsEmpty ==
    [][ (~Mounted /\ Mounted') =>
          /\ currentStep'[flowId'] = "payment"
          /\ \A f \in Fields : paymentInfo'[f] = <<>> /\ errors'[f] = "" ]_vars

\* a second flow has just been opened, empty, after a first one that got past
\* the card form was closed
C6_Witness ==
    /\ flowId = 2 /\ Mounted
    /\ currentStep[1] \in {"summary", "processing", "success"}
    /\ currentStep[2] = "payment"
    /\ \A f \in Fields : paymentInfo[f] = <<>> /\ errors[f] = ""

-----------------------------------------------------------------------------
(* Properties of the analytics *)

RECURSIVE SumOver(_, _)
\* the sum of F[i] over the index set S
SumOver(S, F) ==
    IF S = {} THEN 0
    ELSE LET i == CHOOSE j \in S : TRUE IN F[i] + SumOver(S \ {i}, F)

Indices == 1..Len(subscriptions)

\* C7: monthly spend is the sum of the normalized costs (cost / 12 for
\* annually, cost otherwise; here in twelfths of a cent), and a render of the
\* same collection computes the same value again.
C7_MonthlySpendIsSum ==
    /\ [](view.monthlySpend =
             12 * SumOver({i \in Indices : subscriptions[i].billingCycle # "annually"},
                          [i \in Indices |-> subscriptions[i].cost])
             + SumOver({i \in Indices : subscriptions[i].billingCycle = "annually"},
                       [i \in Indices |-> subscriptions[i].cost]))
    /\ [][ subscriptions' = subscriptions => view'.monthlySpend = view.monthlySpend ]_vars

\* an annual and a monthly subscription, both with a cost, have been rendered
C7_Witness ==
    /\ \E i \in Indices : subscriptions[i].billingCycle = "annually" /\ subscriptions[i].cost > 0
    /\ \E i \in Indices : subscriptions[i].billingCycle = "monthly" /\ subscriptions[i].cost > 0
    /\ view.monthlySpend > 0

\* the calendar day of a renewal date and of an instant
RenewalDay(sub) == DaysFromCivil(sub.renewalDate[1], sub.renewalDate[2], sub.renewalDate[3])

\* C8: the next-renewal label is that of the earliest renewal date that is
\* today or later, as calendar dates; N/A when there is none.
C8_NextRenewalByCalendarDate ==
    LET todayDay == DayOf(view.today)
        qualifying == {i \in Indices : RenewalDay(subscriptions[i]) >= todayDay}
    IN  IF qualifying = {}
        THEN view.nextRenewal = <<"N/A">>
        ELSE \E i \in qualifying :
                /\ \A j \in qualifying :
                      RenewalDay(subscriptions[i]) <= RenewalDay(subscriptions[j])
                /\ view.nextRenewal =
                      <<MonthShortNames[subscriptions[i].renewalDate[2]],
                        subscriptions[i].renewalDate[3]>>

\* C9: changePercentage is 0 whenever lastMonthSpend is 0; otherwise it is
\* (monthlySpend - lastMonthSpend) / lastMonthSpend * 100; its denominator is
\* never 0.
C9_ChangePercentage ==
    LET c == view.changePercentage
    IN  /\ c.den # 0
        /\ view.lastMonthSpend = 0 => c.num = 0
        /\ view.lastMonthSpend # 0 =>
              /\ c.num = (view.monthlySpend - view.lastMonthSpend) * 100
              /\ c.den = view.lastMonthSpend

\* nothing counted for last month while there is a monthly spend
C9_Witness == view.lastMonthSpend = 0 /\ view.monthlySpend > 0

\* C10: for a non-empty collection the bucket spends, each rounded to a whole
\* cent, add up to the monthly spend within half a cent per bucket (6 twelfths).
C10_BucketsSumToMonthlySpend ==
    LET n == Len(view.categoryData)
        total == SumOver(1..n, [k \in 1..n |-> view.categoryData[k].spend])
        diff == 12 * total - view.monthlySpend
    IN  Len(subscriptions) > 0 => (diff <= 6 * n /\ -diff <= 6 * n)

\* two buckets whose rounded spends do not add up to the monthly spend exactly
C10_Witness ==
    LET n == Len(view.categoryData)
        total == SumOver(1..n, [k \in 1..n |-> view.categoryData[k].spend])
    IN  n = 2 /\ 12 * total # view.monthlySpend

\* the normalized monthly cost of subscription i, in twelfths of a cent
NormalizedCost(i) ==
    IF subscriptions[i].billingCycle = "annually"
    THEN subscriptions[i].cost ELSE 12 * subscriptions[i].cost

CategoriesPresent == {subscriptions[i].category : i \in Indices}

\* the sum of the normalized monthly costs of category c
CategorySum(c) ==
    SumOver({i \in Indices : subscriptions[i].category = c},
            [i \in Indices |-> NormalizedCost(i)])

TotalMonthlySpend == SumOver(Indices, [i \in Indices |-> NormalizedCost(i)])

\* p is x rounded to the nearest integer for x = num / den, den > 0, halves up
IsRounded(p, num, den) == 2 * p * den <= 2 * num + den /\ 2 * num + den < 2 * (p + 1) * den

\* the breakdown has one bucket per category present, none for another category
OneBucketPerCategory ==
    /\ Len(view.categoryData) = Cardinality(CategoriesPresent)
    /\ \A c \in CategoriesPresent :
          \E k \in 1..Len(view.categoryData) : view.categoryData[k].category = c
    /\ \A k \in 1..Len(view.categoryData) : view.categoryData[k].category \in CategoriesPresent

\* C11 as claimed: one bucket per distinct category present; a bucket's spend
\* is the sum of its category's normalized monthly costs (spend is in cents,
\* the sum in twelfths of a cent) and its percentage is that sum's share of
\* the total, rounded to an integer; the breakdown is empty when the total is 0.
C11_BucketSpendIsSum ==
    IF TotalMonthlySpend = 0 THEN view.categoryData = <<>>
    ELSE /\ OneBucketPerCategory
         /\ \A k \in 1..Len(view.categoryData) :
               LET b == view.categoryData[k]
               IN  /\ 12 * b.spend = CategorySum(b.category)
                   /\ IsRounded(b.percentage, 100 * CategorySum(b.category), TotalMonthlySpend)

\* C11 as amended: one bucket per distinct category present; a bucket's spend
\* is the sum of its category's normalized monthly costs rounded to the
\* nearest cent, and its percentage is the unrounded sum's share of the total,
\* rounded to an integer; the breakdown is empty when the total is 0.
C11_BucketSpendIsRoundedSum ==
    IF TotalMonthlySpend = 0 THEN view.categoryData = <<>>
    ELSE /\ OneBucketPerCategory
         /\ \A k \in 1..Len(view.categoryData) :
               LET b == view.categoryData[k]
               IN  /\ IsRounded(b.spend, CategorySum(b.category), 12)
                   /\ IsRounded(b.percentage, 100 * CategorySum(b.category), TotalMonthlySpend)

\* two categories are present, and the monthly share of an annual cost is
\* not a whole number of cents: its bucket's spend is rounded
C11_Witness ==
    /\ Cardinality(CategoriesPresent) = 2
    /\ Len(view.categoryData) = 2
    /\ \E k \in 1..2 : 12 * view.categoryData[k].spend # CategorySum(view.categoryData[k].category)
    /\ \E k \in 1..2 : view.categoryData[k].percentage * TotalMonthlySpend
                          > 100 * CategorySum(view.categoryData[k].category)

\* the number of days of month m (1..12) of year y
DaysInMonth(y, m) ==
    IF m = 12 THEN 31 ELSE DaysFromCivil(y, m + 1, 1) - DaysFromCivil(y, m, 1)

\* the same day and time of day in the calendar month `months` months before
\* t; a day the target month does not have is its last day
MonthsBefore(t, months) ==
    LET c  == CivilFromDays(DayOf(t))
        ym == c.y * 12 + (c.m - 1) - months
        y  == ym \div 12
        m  == (ym % 12) + 1
        d  == IF c.d <= DaysInMonth(y, m) THEN c.d ELSE DaysInMonth(y, m)
    IN  DaysFromCivil(y, m, d) * 24 + HourOf(t)

\* the renewal date stepped back by one billing period
AssumedStart(i) ==
    IF subscriptions[i].billingCycle = "monthly"
    THEN MonthsBefore(RenewalTime(subscriptions[i]), 1)
    ELSE MonthsBefore(RenewalTime(subscriptions[i]), 12)

\* C12: last-month spend is the sum of the normalized monthly costs of
\* exactly the subscriptions whose assumed start (the renewal date one month
\* back for monthly, one year back otherwise) is on or before the point one
\* month before today.
C12_LastMonthSpend ==
    view.lastMonthSpend =
        SumOver({i \in Indices : AssumedStart(i) <= MonthsBefore(view.today, 1)},
                [i \in Indices |-> NormalizedCost(i)])

-----------------------------------------------------------------------------
(* Properties of the trend *)

\* the months since year 0 of the calendar month of today
CurrentMonthNumber ==
    LET c == CivilFromDays(view.today \div 24) IN c.y * 12 + (c.m - 1)

\* C13: for every collection, the empty one included, the trend has exactly
\* 12 points, one for each of the 12 consecutive calendar months ending with
\* the current month, oldest first and the current month last.
C13_TwelveMonthsOldestFirst ==
    /\ DOMAIN view.chartData = 1..12
    /\ \A k \in 1..12 :
          view.chartData[k].name = MonthShortNames[((CurrentMonthNumber - 12 + k) % 12) + 1]

\* the trend of a collection of two, rendered in March: April comes first
C13_Witness ==
    /\ Len(subscriptions) = 2
    /\ view.chartData[1].name = "Apr"
    /\ view.chartData[12].name = "Mar"
    /\ \E k \in 1..12 : view.chartData[k].total > 0

\* C14: each trend total is the month's raw estimate times a factor between
\* 0.85 and 1.15, rounded to a whole cent (raw estimates are in twelfths of a
\* cent, so 240 * total is compared with 17 and 23 times the estimate); it is
\* never negative, and a raw estimate of 0 yields a total of 0.
C14_TotalWithinJitter ==
    \A k \in 1..12 :
        LET raw == view.monthSpends[k]
            total == view.chartData[k].total
        IN  /\ total >= 0
            /\ raw = 0 => total = 0
            /\ (17 * raw + 120) \div 240 <= total
            /\ total <= (23 * raw + 120) \div 240

\* one render with a total at the low end of the range and one above the
\* raw estimate
C14_Witness ==
    /\ \E k \in 1..12 :
          /\ view.monthSpends[k] > 0
          /\ view.chartData[k].total = (17 * view.monthSpends[k] + 120) \div 240
    /\ \E k \in 1..12 : 12 * view.chartData[k].total > view.monthSpends[k]

\* C15: for the empty collection every derived output is a zero, an empty
\* set or a sentinel: monthly spend 0, last-month spend 0, change percentage
\* 0 with the label No data, next renewal N/A, active count 0, an empty
\* category breakdown with the chart in its empty state, every trend total 0
\* and the renewals area in its add-subscriptions state.
C15_EmptyCollectionOutputs ==
    subscriptions = <<>> =>
        /\ view.monthlySpend = 0
        /\ view.lastMonthSpend = 0
        /\ view.changePercentage.num = 0
        /\ ChangeLabel(view.lastMonthSpend, view.changePercentage) = <<"No data">>
        /\ view.nextRenewal = <<"N/A">>
        /\ view.activeCount = 0
        /\ view.categoryData = <<>>
        /\ CategoryChart(view.categoryData) = "No category data available"
        /\ \A k \in DOMAIN view.chartData : view.chartData[k].total = 0
        /\ view.renewalsArea = "Add subscriptions to track upcoming renewals."

\* the empty collection rendered at the end of March, with the trend drawn
C15_Witness ==
    /\ subscriptions = <<>>
    /\ view.today = NewDate(<<2024, 3, 31>>) + 9
    /\ Len(view.chartData) = 12
    /\ view.renewalsArea = "Add subscriptions to track upcoming renewals."

-----------------------------------------------------------------------------
(* Properties of the Registry *)

RequiredFields == {"name", "cost", "renewalDate", "category"}

\* nothing has been entered in the field (the category is a select's value)
LeftEmpty(field) ==
    IF field = "category" THEN registry.formData[field] = ""
    ELSE Len(registry.formData[field]) = 0

\* C16: a submit with name, cost, renewalDate or category empty emits no
\* intent and shows the blocking message; a submit with all four non-empty
\* emits exactly one creation intent, which carries the entered fields and no
\* id, the cost as a number (in cents) and the plan Standard when none was entered.
C16_SubmitEmitsIffComplete ==
    [][ HandleSubmit =>
          IF \E field \in RequiredFields : LeftEmpty(field)
          THEN /\ intents' = intents
               /\ registry'.alertShown # ""
          ELSE /\ registry'.alertShown = ""
               /\ Len(intents') = Len(intents) + 1
               /\ SubSeq(intents', 1, Len(intents)) = intents
               /\ LET intent == intents'[Len(intents')]
                      form == registry.formData
                  IN  /\ intent.call = "onAddSubscription"
                      /\ "id" \notin DOMAIN intent.arg
                      /\ \A field \in {"name", "description", "renewalDate",
                                       "billingCycle", "category"} :
                            intent.arg[field] = form[field]
                      /\ intent.arg.cost \in Nat
                      /\ form.cost = <<"9", ".", "9", "9">> => intent.arg.cost = 999
                      /\ form.cost = <<"0">> => intent.arg.cost = 0
                      /\ intent.arg.plan =
                            IF Len(form.plan) = 0
                            THEN <<"S", "t", "a", "n", "d", "a", "r", "d">>
                            ELSE form.plan ]_vars

\* a form submitted without a plan is in flight as a creation intent with
\* the plan Standard and the cost 9.99 as 999 cents
C16_Witness ==
    /\ Len(intents) = 1
    /\ intents[1].call = "onAddSubscription"
    /\ intents[1].arg.plan = <<"S", "t", "a", "n", "d", "a", "r", "d">>
    /\ intents[1].arg.cost = 999
    /\ ~registry.showAddModal

\* C17: no action of the user in the Registry or the Dashboard changes the
\* collection: a step that changes it is a step of the owner; a delete click
\* emits exactly one delete intent with the card's id, at once, and leaves
\* the collection as it is; a submit leaves it as it is too; while no intent
\* is emitted or handled the views show the same collection.
C17_UserActionsOnlyReport ==
    [][ /\ subscriptions' # subscriptions => OwnerHandlesIntent
        /\ \A id \in Ids(subscriptions) :
              HandleDeleteClick(id) =>
                 /\ intents' = Append(intents, [call |-> "onDeleteSubscription", arg |-> id])
                 /\ subscriptions' = subscriptions
        /\ HandleSubmit => subscriptions' = subscriptions /\ Len(intents') <= Len(intents) + 1
        /\ intents' = intents =>
              subscriptions' = subscriptions /\ view'.activeCount = view.activeCount ]_vars

\* a delete intent is in flight and its subscription is still in the
\* collection of two, which the grid shows sorted by cost
C17_Witness ==
    /\ Len(intents) = 1
    /\ intents[1].call = "onDeleteSubscription"
    /\ intents[1].arg \in Ids(subscriptions)
    /\ Len(subscriptions) = 2
    /\ registry.sortBy = "cost"

\* the cards of the grid in the current state
Cards == FilteredAndSortedSubscriptions(subscriptions, registry)

\* two characters are the same letter, whatever their case
SameLetter(c, d) ==
    \/ c = d
    \/ \E i \in 1..26 : {c, d} = {UpperCaseChars[i], LowerCaseChars[i]}

\* term occurs in name as a run of consecutive characters, case ignored
ContainsIgnoringCase(name, term) ==
    \E offset \in 0..(Len(name) - Len(term)) :
        \A j \in 1..Len(term) : SameLetter(name[offset + j], term[j])

\* the place of a letter in the alphabet
AlphabetPlace(c) ==
    CHOOSE i \in 1..26 : c = UpperCaseChars[i] \/ c = LowerCaseChars[i]

\* a is not after b in alphabetical order, case ignored
NameNotAfter(a, b) ==
    \E p \in 0..Len(a) :
        /\ p <= Len(b)
        /\ \A j \in 1..p : SameLetter(a[j], b[j])
        /\ \/ p = Len(a)
           \/ p < Len(b) /\ AlphabetPlace(a[p + 1]) < AlphabetPlace(b[p + 1])

\* date a is not after date b, as <<year, month, day>>
DateNotAfter(a, b) ==
    \/ a[1] < b[1]
    \/ a[1] = b[1] /\ a[2] < b[2]
    \/ a[1] = b[1] /\ a[2] = b[2] /\ a[3] <= b[3]

\* C18: the grid holds exactly the subscriptions whose name contains the
\* search term, case ignored, and whose category equals the filter (all
\* matches every category), each exactly once, ordered by name ascending for
\* key name, by the raw cost descending for key cost and by renewal date
\* ascending for key renewal.
C18_GridIsFilteredAndSorted ==
    /\ \A i \in Indices :
          LET matches == /\ ContainsIgnoringCase(subscriptions[i].name, registry.searchTerm)
                         /\ registry.filterBy = "all"
                            \/ subscriptions[i].category = registry.filterBy
          IN  Cardinality({k \in 1..Len(Cards) : Cards[k] = subscriptions[i]})
                 = IF matches THEN 1 ELSE 0
    /\ \A k \in 1..Len(Cards) : \E i \in Indices : Cards[k] = subscriptions[i]
    /\ \A k \in 1..(Len(Cards) - 1) :
          /\ registry.sortBy = "name" => NameNotAfter(Cards[k].name, Cards[k + 1].name)
          /\ registry.sortBy = "cost" => Cards[k].cost >= Cards[k + 1].cost
          /\ registry.sortBy = "renewal" =>
                DateNotAfter(Cards[k].renewalDate, Cards[k + 1].renewalDate)

\* a search in another case than the names', with the grid in another order
\* than the snapshot's
C18_Witness ==
    /\ registry.searchTerm = <<"b">>
    /\ registry.sortBy = "name"
    /\ Len(subscriptions) = 2
    /\ Len(Cards) = 2
    /\ Cards[1] = subscriptions[2]
    /\ Cards[1].name = <<"a", "b">>
    /\ Cards[2].name = <<"B", "o", "x">>


-----------------------------------------------------------------------------
(* Properties of the card-number and expiry fields *)

\* digits in blocks of 4 separated by single spaces, the last block possibly
\* shorter and never empty
GroupedInFours(n) ==
    /\ \A i \in 1..Len(n) : IF i % 5 = 0 THEN n[i] = " " ELSE n[i] \in DigitChars
    /\ (Len(n) = 0 \/ Len(n) % 5 # 0)

\* the network of a stored card number, by its first character
NetworkOfLeadingDigit(n) ==
    IF n = <<>> THEN ""
    ELSE CASE n[1] = "4"              -> "Visa"
           [] n[1] = "5" \/ n[1] = "2" -> "Mastercard"
           [] n[1] = "3"              -> "American Express"
           [] OTHER                   -> ""

ExampleCardInput == <<"4">> \o Rep("1", 15)
ExampleCardStored ==
    <<"4", "1", "1", "1", " ", "1", "1", "1", "1", " ",
      "1", "1", "1", "1", " ", "1", "1", "1", "1">>

\* C19: after every edit of the card-number field (a key typed, a character
\* deleted, a text pasted) the stored card number is digits in blocks of 4
\* separated by single spaces, at most 19 characters and at most 16 digits
\* long, and the badge shows the network of its leading digit: Visa for 4,
\* Mastercard for 5 and 2, American Express for 3, none otherwise; the input
\* 4111111111111111 is stored as 4111 1111 1111 1111 with the badge Visa.
C19_CardNumberStoredGrouped ==
    [][ \A value \in CardEditValues :
           HandleCardNumberChange(value) =>
              LET stored == paymentInfo'.cardNumber
              IN  /\ GroupedInFours(stored)
                  /\ Len(stored) <= 19
                  /\ DigitCount(stored) <= 16
                  /\ GetCardType(stored) = NetworkOfLeadingDigit(stored)
                  /\ value = ExampleCardInput =>
                        stored = ExampleCardStored /\ GetCardType(stored) = "Visa" ]_vars

C19_Witness ==
    /\ InStep("payment")
    /\ paymentInfo.cardNumber = ExampleCardStored
    /\ GetCardType(paymentInfo.cardNumber) = "Visa"

\* C20: after every edit of the expiry field the stored expiry is at most 5
\* characters long; when the edited text holds two or more digits it is the
\* first two of them, a slash and the next up to two; and formatting the
\* stored expiry again returns it as it is.
C20_ExpiryStoredFormatted ==
    [][ \A value \in ExpiryEditValues :
           HandleExpiryChange(value) =>
              LET stored == paymentInfo'.expiryDate
                  digits == StripNonDigits(value)
              IN  /\ Len(stored) <= 5
                  /\ Len(digits) >= 2 =>
                        /\ Len(stored) = 3 + Min(Len(digits) - 2, 2)
                        /\ stored[1] = digits[1]
                        /\ stored[2] = digits[2]
                        /\ stored[3] = "/"
                        /\ \A k \in 4..Len(stored) : stored[k] = digits[k - 1]
                  /\ FormatExpiryDate(stored) = stored ]_vars

C20_Witness ==
    /\ InStep("payment")
    /\ paymentInfo.expiryDate = <<"1", "2", "/", "2", "5">>

-----------------------------------------------------------------------------
(* Properties of the upcoming-renewals table *)

\* the hours from the render's clock reading to the renewal of subscription i
HoursUntilRenewal(i) == RenewalTime(subscriptions[i]) - view.today

\* the days until renewal, rounded up to whole days, are between 0 and 30:
\* the renewal is less than a day behind and at most 30 days ahead
WithinRenewalWindow(i) ==
    \E days \in 0..30 :
        /\ days * 24 >= HoursUntilRenewal(i)
        /\ (days - 1) * 24 < HoursUntilRenewal(i)

RenewalsDue == {i \in Indices : WithinRenewalWindow(i)}

\* C21: the rows of the upcoming-renewals table are subscriptions of the
\* collection due within 0 to 30 days (rounded up) of the clock reading,
\* each at most once, in ascending order of renewalDate; there are as many
\* rows as subscriptions due, up to five, and a subscription due that has no
\* row renews no earlier than the last row.  A collection of one
\* subscription renewing in 10 days has exactly that row.
C21_RenewalsTableRows ==
    LET rows == view.renewals
        RowOf(i) == \E k \in 1..Len(rows) : rows[k] = subscriptions[i]
    IN  /\ \A k \in 1..Len(rows) :
              \E i \in RenewalsDue : rows[k] = subscriptions[i]
        /\ \A k, l \in 1..Len(rows) : k < l =>
              /\ rows[k] # rows[l]
              /\ RenewalDay(rows[k]) <= RenewalDay(rows[l])
        /\ Len(rows) = Min(Cardinality(RenewalsDue), 5)
        /\ \A i \in RenewalsDue :
              ~RowOf(i) => RenewalDay(subscriptions[i]) >= RenewalDay(rows[Len(rows)])
        /\ (Len(subscriptions) = 1 /\ HoursUntilRenewal(1) = 10 * 24) =>
              rows = subscriptions

\* six subscriptions are due and the table is cut to the five earliest
C21_Witness ==
    /\ Cardinality(RenewalsDue) = 6
    /\ Len(view.renewals) = 5
    /\ \E i \in Indices : ~WithinRenewalWindow(i)

-----------------------------------------------------------------------------
(* Properties of the trend's raw estimate *)

\* the first day of the month of trend point k
TrendMonth(k) == MonthDate(view.today, 12 - k)

\* subscriptionStart of subscription i when the loop of trend point k ends
StartAfterLoop(i, k) ==
    IF subscriptions[i].billingCycle = "monthly"
    THEN StepBackByMonth(RenewalTime(subscriptions[i]), TrendMonth(k))
    ELSE StepBackByYear(RenewalTime(subscriptions[i]), TrendMonth(k))

\* C22: for each of the 12 trend months and each subscription the step-back
\* loop ends with an assumed start on or before the first day of that month
\* (and, when the renewal is after that day, less than one cycle before the
\* last start it rejected), so no subscription is left out and the estimate
\* of every trend month before the jitter equals the current monthly spend.
C22_RawEstimateIsMonthlySpend ==
    \A k \in 1..12 :
        /\ \A i \in Indices :
              /\ StartAfterLoop(i, k) <= TrendMonth(k)
              /\ StartAfterLoop(i, k) <= RenewalTime(subscriptions[i])
              /\ RenewalTime(subscriptions[i]) > TrendMonth(k) =>
                    StartAfterLoop(i, k) > TrendMonth(k) - 366 * 24
        /\ view.monthSpends[k] = view.monthlySpend

\* a monthly subscription renewing on 31 May of the next year: the loop runs
\* more than twelve times, through month ends
C22_Witness ==
    /\ Len(subscriptions) = 1
    /\ subscriptions[1].billingCycle = "monthly"
    /\ subscriptions[1].renewalDate = <<2025, 5, 31>>
    /\ view.monthSpends[1] > 0
    /\ StartAfterLoop(1, 1) < RenewalTime(subscriptions[1]) - 366 * 24

-----------------------------------------------------------------------------
(* Properties of the change indicator *)

\* C23: with costs that are not negative, last month's spend is at most the
\* monthly spend, the change percentage is not negative and the change line
\* is drawn as an increase (class positive, sign +), never as a decrease.
C23_ChangeNeverDecrease ==
    (\A i \in Indices : subscriptions[i].cost >= 0) =>
        /\ view.lastMonthSpend <= view.monthlySpend
        /\ view.changePercentage.den > 0
        /\ view.changePercentage.num >= 0
        /\ StatChangeClass(view.changePercentage) = "positive"
        /\ view.lastMonthSpend > 0 =>
              ChangeLabel(view.lastMonthSpend, view.changePercentage)[1] = "+"

\* one subscription counted for last month and another one left out of it
C23_Witness ==
    /\ view.lastMonthSpend > 0
    /\ view.lastMonthSpend < view.monthlySpend
    /\ view.changePercentage.num > 0
    /\ StatChangeClass(view.changePercentage) = "positive"

-----------------------------------------------------------------------------
(* Properties relating the Next Renewal stat to the renewals table *)

\* C24: whenever the upcoming-renewals table has a row, the Next Renewal
\* stat is not N/A and is the month and day of the renewalDate of the
\* table's first row, a subscription renewing today included.
C24_NextRenewalIsFirstRow ==
    Len(view.renewals) >= 1 =>
        /\ view.nextRenewal # <<"N/A">>
        /\ view.nextRenewal = <<MonthShortNames[view.renewals[1].renewalDate[2]],
                                view.renewals[1].renewalDate[3]>>

====
